---- MODULE Spec2Model ----
(***************************************************************************)
(* The address book of src/main.py: the fields (Name, Phone, Birthday),    *)
(* Record, AddressBook and the command loop main().                        *)
(*                                                                         *)
(* A text is a TLA+ string; Chars gives its characters.  A character that  *)
(* TLA+ strings cannot hold is written as a tag: "<nl>" is the line feed   *)
(* U+000A and "<sup2>" is SUPERSCRIPT TWO U+00B2 (str.isdigit() is true    *)
(* of it, the regular expression class \d does not match it).              *)
(* An input line is given by its whitespace-separated words, which is what *)
(* str.split() makes of it; the blank line is << >>.                       *)
(***************************************************************************)
EXTENDS Integers, Sequences, FiniteSets, TLC

VARIABLES
    data,        \* AddressBook.data: the dict, as the sequence of its records in insertion order
    now,         \* the wall clock datetime.now() reads: [y, m, d, tod], tod = 0 is midnight sharp
    pc,          \* main(): "running", "exited" (after close/exit) or "crashed" (uncaught exception)
    user_input,  \* main(): the line read last
    printed,     \* what the last operation printed, line by line
    upcoming,    \* AddressBook.birthdays: the list upcoming_birthdays of the last query, sorted
    saved,       \* addressbook.pkl: << >> when absent, else <<the pickled data>>
    rec,         \* a caller's Record not yet in the book: << >> or <<record>>
    call,        \* the last direct call of a Record or AddressBook method
    ret          \* how that call ended: <<"return", value>> or <<"raise", exception>>

vars == <<data, now, pc, user_input, printed, upcoming, saved, rec, call, ret>>

----------------------------------------------------------------------------
(* Bounds *)

\* most phones a record is grown to by direct add_phone calls
MaxPhones == 2
\* how many days the clock runs on past Start
MaxDays == 1

\* the clock's date when the program starts
Start == [y |-> 2025, m |-> 2, d |-> 26]

----------------------------------------------------------------------------
(* Texts and their characters *)

\* F(v), with v worked out once
With(v, F(_)) == CHOOSE r \in {F(x) : x \in {v}} : TRUE

AsciiDigits == {"0", "1", "2", "3", "4", "5", "6", "7", "8", "9"}

Rep(c, n) == [i \in 1..n |-> c]

Chars(s) ==
    CASE s = "" -> << >>
      [] s = "1111111111" -> Rep("1", 10)
      [] s = "2222222222" -> Rep("2", 10)
      [] s = "3333333333" -> Rep("3", 10)
      [] s = "12345" -> <<"1", "2", "3", "4", "5">>
      [] s = "12345abcde" -> <<"1", "2", "3", "4", "5", "a", "b", "c", "d", "e">>
      [] s = "12345678901" -> <<"1", "2", "3", "4", "5", "6", "7", "8", "9", "0", "1">>
      [] s = "123456789<sup2>" -> <<"1", "2", "3", "4", "5", "6", "7", "8", "9", "<sup2>">>
      [] s = "1234567890<nl>" -> <<"1", "2", "3", "4", "5", "6", "7", "8", "9", "0", "<nl>">>
      [] s = "26.02.2000" -> <<"2", "6", ".", "0", "2", ".", "2", "0", "0", "0">>
      [] s = "01.03.2000" -> <<"0", "1", ".", "0", "3", ".", "2", "0", "0", "0">>
      [] s = "29.02.2024" -> <<"2", "9", ".", "0", "2", ".", "2", "0", "2", "4">>
      [] s = "27.02.2025" -> <<"2", "7", ".", "0", "2", ".", "2", "0", "2", "5">>
      [] s = "31.02.2024" -> <<"3", "1", ".", "0", "2", ".", "2", "0", "2", "4">>
      [] s = "01.03.2025" -> <<"0", "1", ".", "0", "3", ".", "2", "0", "2", "5">>
      [] s = "1.3.2000" -> <<"1", ".", "3", ".", "2", "0", "0", "0">>
      [] s = "2000-03-01" -> <<"2", "0", "0", "0", "-", "0", "3", "-", "0", "1">>
      [] s = "01.03.2000<nl>" -> <<"0", "1", ".", "0", "3", ".", "2", "0", "0", "0", "<nl>">>
      [] s = "0" -> <<"0">>
      [] s = "2" -> <<"2">>
      [] s = "7" -> <<"7">>
      [] s = "abc" -> <<"a", "b", "c">>
      [] s = "Ann" -> <<"A", "n", "n">>
      [] s = "Bob" -> <<"B", "o", "b">>

\* the regular expression class \d (of the inputs' characters)
ReDigit(c) == c \in AsciiDigits

\* str.isdigit() of one character
IsDigitChar(c) == c \in AsciiDigits \cup {"<sup2>"}

DigitVal(c) ==
    CASE c = "0" -> 0 [] c = "1" -> 1 [] c = "2" -> 2 [] c = "3" -> 3 [] c = "4" -> 4
      [] c = "5" -> 5 [] c = "6" -> 6 [] c = "7" -> 7 [] c = "8" -> 8 [] c = "9" -> 9

\* the number a sequence of decimal digits writes
DecVal(cs) ==
    LET val[i \in 0..Len(cs)] == IF i = 0 THEN 0 ELSE 10 * val[i - 1] + DigitVal(cs[i])
    IN  val[Len(cs)]

\* re.match(pattern, s) for a pattern ^...$ of single-character classes: pat[i] is the
\* set of characters allowed at place i.  "$" also matches before one final line feed.
ReMatch(pat, s) ==
    LET cs == Chars(s) IN
    /\ Len(cs) \in {Len(pat), Len(pat) + 1}
    /\ \A i \in 1..Len(pat) : cs[i] \in pat[i]
    /\ Len(cs) = Len(pat) + 1 => cs[Len(cs)] = "<nl>"

PhonePattern == [i \in 1..10 |-> AsciiDigits]

BirthdayPattern ==
    [i \in 1..10 |-> IF i \in {3, 6} THEN {"."} ELSE AsciiDigits]

----------------------------------------------------------------------------
(* The calendar of datetime *)

IsLeap(y) == (y % 4 = 0) /\ ((y % 100 # 0) \/ (y % 400 = 0))

DaysInMonth(y, m) ==
    IF m = 2 THEN (IF IsLeap(y) THEN 29 ELSE 28)
    ELSE IF m \in {4, 6, 9, 11} THEN 30 ELSE 31

RECURSIVE DaysBeforeMonth(_, _)
DaysBeforeMonth(y, m) == IF m = 1 THEN 0 ELSE DaysBeforeMonth(y, m - 1) + DaysInMonth(y, m - 1)

\* date.toordinal()
Ordinal(dt) ==
    LET p == dt.y - 1 IN
    p * 365 + (p \div 4) - (p \div 100) + (p \div 400) + DaysBeforeMonth(dt.y, dt.m) + dt.d

IsDate(y, m, d) == y \in 1..9999 /\ m \in 1..12 /\ d \in 1..DaysInMonth(y, m)

NextDay(dt) ==
    IF dt.d < DaysInMonth(dt.y, dt.m) THEN [dt EXCEPT !.d = dt.d + 1]
    ELSE IF dt.m < 12 THEN [dt EXCEPT !.m = dt.m + 1, !.d = 1]
    ELSE [dt EXCEPT !.y = dt.y + 1, !.m = 1, !.d = 1]

----------------------------------------------------------------------------
(* Outcomes, the decorator and the fields *)

\* How a call ends: the exception that escapes it ("" when none), what it printed, and
\* the object it built or left behind.
Outcome(exc, out, obj) == [exc |-> exc, printed |-> out, obj |-> obj]

\* input_error(message): ValueError and TypeError end in the message, nothing escapes
input_error(message, r) ==
    IF r.exc \in {"ValueError", "TypeError"}
    THEN Outcome("", Append(r.printed, message), r.obj)
    ELSE r

\* Field.__init__ sets the attribute value; an object whose __init__ was cut short has none
Field(value) == [has |-> TRUE, value |-> value]
NoValue == [has |-> FALSE, value |-> ""]

Name(value) ==
    input_error("Name cannot be empty.",
        IF value = "" THEN Outcome("ValueError", << >>, NoValue)
        ELSE Outcome("", << >>, Field(value)))

Phone(value) ==
    input_error("Phone number must be 10 digits.",
        IF ~ReMatch(PhonePattern, value) THEN Outcome("ValueError", << >>, NoValue)
        ELSE Outcome("", << >>, Field(value)))

is_valid_format(value) == ReMatch(BirthdayPattern, value)

\* the fields of a text d.m.Y, << >> when it does not hold exactly two dots
DateFields(cs) ==
    With({i \in 1..Len(cs) : cs[i] = "."}, LAMBDA dots :
        IF Cardinality(dots) # 2 THEN << >>
        ELSE With(CHOOSE i \in dots : \A j \in dots : i <= j, LAMBDA p1 :
             With(CHOOSE i \in dots : \A j \in dots : j <= i, LAMBDA p2 :
                <<SubSeq(cs, 1, p1 - 1), SubSeq(cs, p1 + 1, p2 - 1), SubSeq(cs, p2 + 1, Len(cs))>>)))

AllDigits(cs) == \A i \in 1..Len(cs) : ReDigit(cs[i])

\* datetime.strptime(value, "%d.%m.%Y"): << >> for ValueError, else <<the date>>.
\* Day and month are one or two digits, the year is four, nothing may follow.
Strptime(value) ==
    With(DateFields(Chars(value)), LAMBDA f :
        IF f = << >> THEN << >>
        ELSE IF ~(/\ Len(f[1]) \in {1, 2} /\ Len(f[2]) \in {1, 2} /\ Len(f[3]) = 4
                  /\ AllDigits(f[1]) /\ AllDigits(f[2]) /\ AllDigits(f[3]))
        THEN << >>
        ELSE With([y |-> DecVal(f[3]), m |-> DecVal(f[2]), d |-> DecVal(f[1])], LAMBDA dt :
                IF dt.d \in 1..31 /\ dt.m \in 1..12 /\ IsDate(dt.y, dt.m, dt.d)
                THEN <<dt>> ELSE << >>))

\* a datetime at midnight against the clock
AtOrBefore(dt, clock) == Ordinal(dt) <= Ordinal(clock)
Before(dt, clock) ==
    With(Ordinal(dt) - Ordinal(clock), LAMBDA days : days < 0 \/ (days = 0 /\ clock.tod > 0))

is_valid_date(value, clock) ==
    With(Strptime(value), LAMBDA birthday_date :
        IF birthday_date = << >> THEN FALSE ELSE AtOrBefore(birthday_date[1], clock))

----------------------------------------------------------------------------
(* Record *)

Record(name) ==
    LET n == Name(name) IN
    Outcome(n.exc, n.printed, [name |-> n.obj, phones |-> << >>, birthday |-> << >>])

add_phone(self, phone_number) ==
    LET phone == Phone(phone_number) IN
    input_error("Phone number must be 10 digits.",
        Outcome(phone.exc, phone.printed, [self EXCEPT !.phones = Append(@, phone.obj)]))

\* the first phone without a value, where reading phone.value raises; Len + 1 when none
FirstBroken(phones) ==
    IF \E i \in 1..Len(phones) : ~phones[i].has
    THEN CHOOSE i \in 1..Len(phones) : ~phones[i].has /\ \A j \in 1..(i - 1) : phones[j].has
    ELSE Len(phones) + 1

delete_phone(self, phone_number) ==
    IF FirstBroken(self.phones) <= Len(self.phones)
    THEN Outcome("AttributeError", << >>, self)
    ELSE Outcome("", << >>,
            [self EXCEPT !.phones = SelectSeq(@, LAMBDA phone : phone.value # phone_number)])

edit_phone(self, old_phone_number, new_phone_number) ==
    LET k == FirstBroken(self.phones) IN
    Outcome(IF k <= Len(self.phones) THEN "AttributeError" ELSE "", << >>,
        [self EXCEPT !.phones =
            [i \in 1..Len(@) |->
                IF i < k /\ @[i].value = old_phone_number
                THEN Field(new_phone_number) ELSE @[i]]])

\* the value returned: <<"return", value>>, <<"return", "None">> or <<"raise", exception>>
find_phone(self, phone_number) ==
    LET hit == {i \in 1..Len(self.phones) :
                    ~self.phones[i].has \/ self.phones[i].value = phone_number} IN
    IF hit = {} THEN <<"return", "None">>
    ELSE LET i == CHOOSE i \in hit : \A j \in hit : i <= j IN
         IF self.phones[i].has THEN <<"return", self.phones[i].value>>
         ELSE <<"raise", "AttributeError">>

RECURSIVE Join(_, _)
Join(sep, strs) ==
    IF strs = << >> THEN ""
    ELSE IF Len(strs) = 1 THEN strs[1]
    ELSE strs[1] \o sep \o Join(sep, Tail(strs))

PhoneValues(phones) == [i \in 1..Len(phones) |-> phones[i].value]

\* Record.__str__: << >> when reading a missing value raises AttributeError
RecordStr(self) ==
    IF FirstBroken(self.phones) <= Len(self.phones) \/ ~self.name.has THEN << >>
    ELSE <<"Contact name: " \o self.name.value \o ", phones: "
            \o Join("; ", PhoneValues(self.phones))
            \o (IF self.birthday # << >> THEN ", birthday: " \o self.birthday[1] ELSE "")>>

----------------------------------------------------------------------------
(* AddressBook *)

Keys(d) == {d[i].name.value : i \in 1..Len(d)}

IndexOf(d, name) == CHOOSE i \in 1..Len(d) : d[i].name.value = name

\* self.data[key] = record: a key the dict holds keeps its place
SetItem(d, key, record) ==
    IF key \in Keys(d) THEN [d EXCEPT ![IndexOf(d, key)] = record] ELSE Append(d, record)

\* del self.data[key]
DelItem(d, key) == SelectSeq(d, LAMBDA r : r.name.value # key)

\* add_record that fills in the birthday of the record it replaces
add_recordKeepingBirthday(d, record) ==
    IF ~record.name.has THEN Outcome("AttributeError", << >>, d)
    ELSE IF record.name.value \in Keys(d)
    THEN Outcome("", << >>, SetItem(d, record.name.value,
            [record EXCEPT !.birthday = d[IndexOf(d, record.name.value)].birthday]))
    ELSE Outcome("", << >>, SetItem(d, record.name.value, record))

add_record(d, record) ==
    IF ~record.name.has THEN Outcome("AttributeError", << >>, d)
    ELSE Outcome("", << >>, SetItem(d, record.name.value, record))

delete_record(d, name) ==
    IF name \in Keys(d)
    THEN Outcome("", <<"Contact '" \o name \o "' deleted successfully.">>, DelItem(d, name))
    ELSE Outcome("", <<"Contact not found.">>, d)

\* << >> for None
find_record(d, name) == IF name \in Keys(d) THEN <<d[IndexOf(d, name)]>> ELSE << >>

\* add_birthday without the range check
add_birthdayUnranged(d, clock, name, birthday) ==
    IF ~is_valid_format(birthday)
    THEN Outcome("", <<"Invalid date format. Use DD.MM.YYYY">>, d)
    ELSE IF name \in Keys(d)
    THEN Outcome("", <<"Birthday added for contact '" \o name \o "'.">>,
            [d EXCEPT ![IndexOf(d, name)].birthday = <<birthday>>])
    ELSE Outcome("", <<"Contact not found.">>, d)

add_birthday(d, clock, name, birthday) ==
    IF ~is_valid_format(birthday)
    THEN Outcome("", <<"Invalid date format. Use DD.MM.YYYY">>, d)
    ELSE IF ~is_valid_date(birthday, clock)
    THEN Outcome("", <<"Invalid date. Please enter a valid date.">>, d)
    ELSE IF name \in Keys(d)
    THEN Outcome("", <<"Birthday added for contact '" \o name \o "'.">>,
            [d EXCEPT ![IndexOf(d, name)].birthday = <<birthday>>])
    ELSE Outcome("", <<"Contact not found.">>, d)

show_birthday(d, name) ==
    IF name \in Keys(d) /\ d[IndexOf(d, name)].birthday # << >>
    THEN <<name \o "'s birthday is on " \o d[IndexOf(d, name)].birthday[1]>>
    ELSE <<"Birthday information not found.">>

\* datetime.replace(year=...): << >> for ValueError (29 February of a common year)
ReplaceYear(dt, year) ==
    IF IsDate(year, dt.m, dt.d) THEN <<[dt EXCEPT !.y = year]>> ELSE << >>

\* birthdays, lines 141 to 143: the birthday_date of one record, << >> when ValueError is raised
BirthdayDate(value, clock) ==
    With(Strptime(value), LAMBDA t :
        IF t = << >> THEN << >>
        ELSE With(ReplaceYear(t[1], clock.y), LAMBDA this :
                IF this = << >> THEN << >>
                ELSE IF Before(this[1], clock) THEN ReplaceYear(this[1], clock.y + 1)
                ELSE this))

\* (birthday_date - current_date).days: timedelta rounds the days down
DaysUntil(birthday_date, clock) ==
    Ordinal(birthday_date) - Ordinal(clock) - (IF clock.tod > 0 THEN 1 ELSE 0)

Pad2(n) == IF n < 10 THEN "0" \o ToString(n) ELSE ToString(n)

\* strftime('%Y-%m-%d')
Strftime(dt) == ToString(dt.y) \o "-" \o Pad2(dt.m) \o "-" \o Pad2(dt.d)

\* list.sort(key=lambda x: x[1]): stable, so equal dates keep their order
SortByDate(pairs) ==
    LET rank(i) == Cardinality({j \in 1..Len(pairs) :
                        \/ Ordinal(pairs[j].date) < Ordinal(pairs[i].date)
                        \/ Ordinal(pairs[j].date) = Ordinal(pairs[i].date) /\ j <= i})
    IN  [k \in 1..Len(pairs) |-> pairs[CHOOSE i \in 1..Len(pairs) : rank(i) = k]]

\* The loop of birthdays over the records: the error lines printed and the pairs
\* appended to upcoming_birthdays, in the order of the dict.
RECURSIVE Scan(_, _, _)
Scan(d, clock, days) ==
    IF d = << >> THEN [errors |-> << >>, pairs |-> << >>]
    ELSE IF Head(d).birthday = << >> THEN Scan(Tail(d), clock, days)
    ELSE With(BirthdayDate(Head(d).birthday[1], clock), LAMBDA birthday_date :
            IF birthday_date = << >>
            THEN [Scan(Tail(d), clock, days) EXCEPT !.errors =
                    <<"Error processing birthday for " \o Head(d).name.value
                        \o ". Invalid date format.">> \o @]
            ELSE IF DaysUntil(birthday_date[1], clock) \in 0..days
            THEN [Scan(Tail(d), clock, days) EXCEPT !.pairs =
                    <<[name |-> Head(d).name.value, date |-> birthday_date[1]]>> \o @]
            ELSE Scan(Tail(d), clock, days))

RECURSIVE BirthdayLines(_)
BirthdayLines(pairs) ==
    IF pairs = << >> THEN << >>
    ELSE <<Head(pairs).name \o "'s birthday is on " \o Strftime(Head(pairs).date)>>
            \o BirthdayLines(Tail(pairs))

\* [printed, upcoming] of birthdays(days)
birthdays(d, clock, days) ==
    With(Scan(d, clock, days), LAMBDA seen :
    With(SortByDate(seen.pairs), LAMBDA upcoming_birthdays :
        [printed |-> seen.errors \o BirthdayLines(upcoming_birthdays),
         upcoming |-> upcoming_birthdays]))

\* str.isdigit()
IsDigit(s) == Chars(s) # << >> /\ \A i \in 1..Len(Chars(s)) : IsDigitChar(Chars(s)[i])

change(d, name, new_phone_number) ==
    IF Len(Chars(new_phone_number)) # 10 \/ ~IsDigit(new_phone_number)
    THEN Outcome("", <<"Phone number must be 10 digits.">>, d)
    ELSE IF name \in Keys(d)
    THEN LET added == add_phone([d[IndexOf(d, name)] EXCEPT !.phones = << >>], new_phone_number) IN
         Outcome(added.exc,
            added.printed \o <<"Phone number for contact '" \o name \o "' updated successfully.">>,
            [d EXCEPT ![IndexOf(d, name)] = added.obj])
    ELSE Outcome("", <<"Contact not found.">>, d)

del_contact(d, name) ==
    IF name \in Keys(d)
    THEN Outcome("", <<"Contact '" \o name \o "' deleted successfully.">>, DelItem(d, name))
    ELSE Outcome("", <<"Contact not found.">>, d)

----------------------------------------------------------------------------
(* The inputs *)

BirthdayTexts ==
    {"26.02.2000", "01.03.2000", "29.02.2024", "27.02.2025", "31.02.2024", "2000-03-01"}

\* the lines typed at the prompt, each as its words
Lines ==
    {<< >>, <<"hello">>, <<"hello", "Ann">>, <<"all">>, <<"all", "Ann">>,
     <<"close">>, <<"EXIT">>, <<"foo">>}
    \cup {<<"add", "Ann">>, <<"add", "Ann", "2222222222">>,
          <<"add", "Ann", "1111111111", "2222222222">>, <<"add", "Bob", "1111111111">>,
          <<"add", "Ann", "1111111111", "12345abcde">>}
    \cup {<<"change", "Ann">>, <<"change", "Bob", "3333333333">>,
          <<"change", "Ann", "3333333333", "1111111111">>}
    \cup {<<"change", "Ann", p>> : p \in {"3333333333", "12345", "123456789<sup2>"}}
    \cup {<<"phone">>, <<"phone", "Ann">>}
    \cup {<<"add-birthday", "Ann">>, <<"add-birthday", "Bob", "26.02.2000">>}
    \cup {<<"add-birthday", "Ann", t>> : t \in BirthdayTexts}
    \cup {<<"show-birthday">>, <<"show-birthday", "Ann">>}
    \cup {<<"birthdays">>, <<"birthdays", "2", "7">>}
    \cup {<<"birthdays", k>> : k \in {"0", "2", "abc"}}
    \cup {<<"del">>, <<"del", "Ann">>, <<"del", "Bob">>}

----------------------------------------------------------------------------
(* main *)

\* str.lower() of a command word
Lower(w) == CASE w = "EXIT" -> "exit" [] w = "CLOSE" -> "close" [] OTHER -> w

\* parse_input: "cmd, *args = user_input.split()" raises ValueError on a line without words
parse_input(line) ==
    IF line = << >> THEN Outcome("ValueError", << >>, << >>)
    ELSE Outcome("", << >>, [cmd |-> Lower(Head(line)), args |-> Tail(line)])

Command(line) == parse_input(line).obj.cmd
Args(line) == parse_input(line).obj.args

\* int(text): << >> for ValueError
IntOf(text) ==
    IF Chars(text) # << >> /\ \A i \in 1..Len(Chars(text)) : ReDigit(Chars(text)[i])
    THEN <<DecVal(Chars(text))>> ELSE << >>

\* the default of the parameter days
DefaultDays == 7

\* "for phone_number in phone_numbers: record.add_phone(phone_number)"
RECURSIVE AddPhones(_, _)
AddPhones(r, phone_numbers) ==
    IF phone_numbers = << >> \/ r.exc # "" THEN r
    ELSE LET a == add_phone(r.obj, Head(phone_numbers)) IN
         AddPhones(Outcome(a.exc, r.printed \o a.printed, a.obj), Tail(phone_numbers))

\* "for record in book.data.values(): print(record)": what is printed, up to the first
\* record whose __str__ raises
RECURSIVE PrintAll(_)
PrintAll(d) ==
    IF d = << >> THEN Outcome("", << >>, << >>)
    ELSE IF RecordStr(Head(d)) = << >> THEN Outcome("AttributeError", << >>, << >>)
    ELSE LET rest == PrintAll(Tail(d)) IN
         Outcome(rest.exc, RecordStr(Head(d)) \o rest.printed, << >>)

\* the lines whose first word, lowered, is one of these commands
Typed(cmds) == {line \in Lines : parse_input(line).exc = "" /\ Command(line) \in cmds}

CloseLines == Typed({"close", "exit"})
HelloLines == Typed({"hello"})
AddLines == Typed({"add"})
ChangeLines == Typed({"change"})
PhoneLines == Typed({"phone"})
AllLines == Typed({"all"})
AddBirthdayLines == Typed({"add-birthday"})
ShowBirthdayLines == Typed({"show-birthday"})
BirthdaysLines == Typed({"birthdays"})
DelLines == Typed({"del"})
UnparsedLines == {line \in Lines : parse_input(line).exc # ""}

\* One turn of the loop on this line ends with this output (r.printed), this book (r.obj)
\* and, when an exception escapes (r.exc), the end of the process.
Turn(line, outcome, up) ==
    \E r \in {outcome} :
    /\ user_input' = line
    /\ printed' = r.printed
    /\ data' = r.obj
    /\ upcoming' = up
    /\ pc' = IF r.exc # "" THEN "crashed" ELSE "running"
    /\ UNCHANGED <<now, saved, rec, call, ret>>

ReadEmpty ==
    /\ pc = "running"
    /\ \E line \in UnparsedLines :
        /\ Turn(line, Outcome(parse_input(line).exc, << >>, data), << >>)

CmdClose ==
    /\ pc = "running"
    /\ \E line \in CloseLines :
        /\ user_input' = line
        /\ printed' = <<"Good bye!">>
        /\ saved' = <<data>>
        /\ pc' = "exited"
        /\ upcoming' = << >>
        /\ UNCHANGED <<data, now, rec, call, ret>>

CmdHello ==
    /\ pc = "running"
    /\ \E line \in HelloLines :
        /\ Turn(line, Outcome("", <<"How can I help you?">>, data), << >>)

AddCommand(d, args) ==
    IF Len(args) < 2
    THEN Outcome("", <<"Please provide both name and phone number.">>, d)
    ELSE IF \E i \in 2..Len(args) : ~ReMatch(PhonePattern, args[i])
    THEN Outcome("", <<"Phone number must be 10 digits.">>, d)
    ELSE LET record == AddPhones(Record(Head(args)), Tail(args))
             added == add_record(d, record.obj)
         IN  IF added.exc # "" THEN Outcome(added.exc, record.printed, d)
             ELSE Outcome("", record.printed
                    \o <<"Contact '" \o Head(args) \o "' added successfully.">>, added.obj)

CmdAdd ==
    /\ pc = "running"
    /\ \E line \in AddLines :
        /\ Turn(line, AddCommand(data, Args(line)), << >>)

\* the branch "change" counting its arguments as "add" does
ChangeCommandAtLeastTwo(d, args) ==
    IF Len(args) < 2
    THEN Outcome("", <<"Please provide name and the new phone number.">>, d)
    ELSE change(d, args[1], args[2])

ChangeCommand(d, args) ==
    IF Len(args) # 2
    THEN Outcome("", <<"Please provide name and the new phone number.">>, d)
    ELSE change(d, args[1], args[2])

CmdChange ==
    /\ pc = "running"
    /\ \E line \in ChangeLines :
        /\ Turn(line, ChangeCommand(data, Args(line)), << >>)

PhoneCommand(d, args) ==
    IF Len(args) # 1 THEN Outcome("", <<"Please provide name.">>, d)
    ELSE IF args[1] \in Keys(d)
    THEN LET record == d[IndexOf(d, args[1])] IN
         IF FirstBroken(record.phones) <= Len(record.phones)
         THEN Outcome("AttributeError", << >>, d)
         ELSE Outcome("", <<"Phone numbers for contact '" \o args[1] \o "': "
                            \o Join(", ", PhoneValues(record.phones))>>, d)
    ELSE Outcome("", <<"Contact not found.">>, d)

CmdPhone ==
    /\ pc = "running"
    /\ \E line \in PhoneLines :
        /\ Turn(line, PhoneCommand(data, Args(line)), << >>)

CmdAll ==
    /\ pc = "running"
    /\ \E line \in AllLines :
        /\ Turn(line, Outcome(PrintAll(data).exc, PrintAll(data).printed, data), << >>)

AddBirthdayCommand(d, clock, args) ==
    IF Len(args) # 2
    THEN Outcome("", <<"Please provide both name and birthday in the format DD.MM.YYYY.">>, d)
    ELSE add_birthday(d, clock, args[1], args[2])

CmdAddBirthday ==
    /\ pc = "running"
    /\ \E line \in AddBirthdayLines :
        /\ Turn(line, AddBirthdayCommand(data, now, Args(line)), << >>)

ShowBirthdayCommand(d, args) ==
    IF Len(args) # 1 THEN Outcome("", <<"Please provide name.">>, d)
    ELSE Outcome("", show_birthday(d, args[1]), d)

CmdShowBirthday ==
    /\ pc = "running"
    /\ \E line \in ShowBirthdayLines :
        /\ Turn(line, ShowBirthdayCommand(data, Args(line)), << >>)

\* [exc, printed, upcoming] of the branch "birthdays"
BirthdaysCommand(d, clock, args) ==
    IF args # << >>
    THEN IF IntOf(args[1]) = << >>
         THEN [exc |-> "ValueError", printed |-> << >>, upcoming |-> << >>]
         ELSE [exc |-> ""] @@ birthdays(d, clock, IntOf(args[1])[1])
    ELSE [exc |-> ""] @@ birthdays(d, clock, DefaultDays)

CmdBirthdays ==
    /\ pc = "running"
    /\ \E line \in BirthdaysLines :
        /\ LET b == BirthdaysCommand(data, now, Args(line)) IN
           Turn(line, Outcome(b.exc, b.printed, data), b.upcoming)

DelCommand(d, args) ==
    IF Len(args) # 1 THEN Outcome("", <<"Please provide name.">>, d)
    ELSE del_contact(d, args[1])

CmdDel ==
    /\ pc = "running"
    /\ \E line \in DelLines :
        /\ Turn(line, DelCommand(data, Args(line)), << >>)

Recognized ==
    {"close", "exit", "hello", "add", "change", "phone", "all", "add-birthday",
     "show-birthday", "birthdays", "del"}

OtherLines == {line \in Lines : parse_input(line).exc = "" /\ Command(line) \notin Recognized}

CmdInvalid ==
    /\ pc = "running"
    /\ \E line \in OtherLines :
        /\ Turn(line, Outcome("", <<"Invalid command.">>, data), << >>)

\* the wall clock moves on: from midnight into the day, from the day to the next midnight
Tick ==
    /\ pc = "running"
    /\ \/ now.tod = 0 /\ now' = [now EXCEPT !.tod = 1]
       \/ /\ now.tod = 1
          /\ Ordinal(now) - Ordinal(Start) < MaxDays
          /\ now' = [NextDay(now) EXCEPT !.tod = 0]
    /\ UNCHANGED <<data, pc, user_input, printed, upcoming, saved, rec, call, ret>>

\* load_data() with no addressbook.pkl: an empty AddressBook
Init ==
    /\ data = << >>
    /\ now = [y |-> Start.y, m |-> Start.m, d |-> Start.d, tod |-> 0]
    /\ pc = "running"
    /\ user_input = << >>
    /\ printed = <<"Welcome to the assistant bot!">>
    /\ upcoming = << >>
    /\ saved = << >>
    /\ rec = << >>
    /\ call = << >>
    /\ ret = << >>

----------------------------------------------------------------------------
(* Direct calls of the classes, as a test or another module makes them *)

ApiNames == {"Ann", ""}

\* One call ends with this output, this book, this pending record and this result.
Called(c, out, d, pending, result) ==
    /\ call' = c
    /\ printed' = out
    /\ data' = d
    /\ rec' = pending
    /\ ret' = result
    /\ UNCHANGED <<now, pc, user_input, upcoming, saved>>

Result(exc) == IF exc = "" THEN <<"return", "None">> ELSE <<"raise", exc>>

\* record = Record(name)
ApiRecord(name) ==
    /\ pc = "running"
    /\ \E r \in {Record(name)} :
        Called(<<"Record", name>>, r.printed, data, <<r.obj>>, Result(r.exc))

\* book.add_record(record)
ApiAddRecord ==
    /\ pc = "running"
    /\ rec # << >>
    /\ \E r \in {add_record(data, rec[1])} :
        Called(<<"add_record">>, r.printed, r.obj, << >>, Result(r.exc))

\* A method of the record book.find_record(name) returns ends with the record r.obj.
OnRecord(c, name, r, result) ==
    Called(c, r.printed, [data EXCEPT ![IndexOf(data, name)] = r.obj], rec, result)

\* book.find_record(name).add_phone(phone_number)
ApiAddPhone(name, phone_number) ==
    /\ pc = "running"
    /\ name \in Keys(data)
    /\ Len(find_record(data, name)[1].phones) < MaxPhones
    /\ \E r \in {add_phone(find_record(data, name)[1], phone_number)} :
        OnRecord(<<"add_phone", name, phone_number>>, name, r, Result(r.exc))

\* book.find_record(name).delete_phone(phone_number)
ApiDeletePhone(name, phone_number) ==
    /\ pc = "running"
    /\ name \in Keys(data)
    /\ \E r \in {delete_phone(find_record(data, name)[1], phone_number)} :
        OnRecord(<<"delete_phone", name, phone_number>>, name, r, Result(r.exc))

\* book.find_record(name).edit_phone(old_phone_number, new_phone_number)
ApiEditPhone(name, old_phone_number, new_phone_number) ==
    /\ pc = "running"
    /\ name \in Keys(data)
    /\ \E r \in {edit_phone(find_record(data, name)[1], old_phone_number, new_phone_number)} :
        OnRecord(<<"edit_phone", name, old_phone_number, new_phone_number>>, name, r,
                 Result(r.exc))

\* book.find_record(name).find_phone(phone_number)
ApiFindPhone(name, phone_number) ==
    /\ pc = "running"
    /\ name \in Keys(data)
    /\ Called(<<"find_phone", name, phone_number>>, << >>, data, rec,
              find_phone(find_record(data, name)[1], phone_number))

\* book.change(name, new_phone_number)
ApiChange(name, new_phone_number) ==
    /\ pc = "running"
    /\ \E r \in {change(data, name, new_phone_number)} :
        Called(<<"change", name, new_phone_number>>, r.printed, r.obj, rec, Result(r.exc))

\* book.delete_record(name)
ApiDeleteRecord(name) ==
    /\ pc = "running"
    /\ \E r \in {delete_record(data, name)} :
        Called(<<"delete_record", name>>, r.printed, r.obj, rec, Result(r.exc))

\* the texts passed in direct calls
AddPhoneTexts == {"1111111111", "12345", "1234567890<nl>"}
DeletePhoneTexts == {"1111111111", "2222222222"}
EditPhoneTexts == {"2222222222", "12345"}
ChangeTexts == {"3333333333", "12345", "123456789<sup2>"}

NextApi ==
    \/ \E name \in ApiNames : ApiRecord(name)
    \/ ApiAddRecord
    \/ \E phone_number \in AddPhoneTexts : ApiAddPhone("Ann", phone_number)
    \/ \E phone_number \in DeletePhoneTexts : ApiDeletePhone("Ann", phone_number)
    \/ \E new_phone_number \in EditPhoneTexts :
            ApiEditPhone("Ann", "1111111111", new_phone_number)
    \/ ApiFindPhone("Ann", "1111111111")
    \/ \E new_phone_number \in ChangeTexts : ApiChange("Ann", new_phone_number)
    \/ ApiDeleteRecord("Ann")

SpecApi == Init /\ [][NextApi]_vars

Next ==
    \/ ReadEmpty \/ CmdClose \/ CmdHello \/ CmdAdd \/ CmdChange \/ CmdPhone \/ CmdAll
    \/ CmdAddBirthday \/ CmdShowBirthday \/ CmdBirthdays \/ CmdDel \/ CmdInvalid \/ Tick

Spec == Init /\ [][Next]_vars

----------------------------------------------------------------------------
(* The claims *)

\* a string of exactly 10 decimal digits
TenDigits(s) == Len(Chars(s)) = 10 /\ \A i \in 1..Len(Chars(s)) : Chars(s)[i] \in AsciiDigits

PhonesOf(d, name) == d[IndexOf(d, name)].phones

\* C1: add_phone(phone_text) with a phone_text that is not exactly 10 digits leaves the
\* record's phones as they were and reports the failure; a valid phone_text appends
\* exactly one entry whose value is phone_text.
C1_AddPhoneAppendsOnlyValid ==
    [][\A phone_number \in AddPhoneTexts :
        ApiAddPhone("Ann", phone_number) =>
            IF TenDigits(phone_number)
            THEN PhonesOf(data', "Ann") = Append(PhonesOf(data, "Ann"), Field(phone_number))
            ELSE PhonesOf(data', "Ann") = PhonesOf(data, "Ann") /\ printed' # << >>]_vars

\* C2: every phone entry of every record of the book holds a value, and the value is a
\* string of exactly 10 decimal digits.
C2_EveryPhoneTenDigits ==
    \A i \in 1..Len(data) : \A j \in 1..Len(data[i].phones) :
        data[i].phones[j].has /\ TenDigits(data[i].phones[j].value)

\* a step of the loop that reads this line
ReadsLine(line) == pc = "running" /\ now' = now /\ user_input' = line

Today == [y |-> now.y, m |-> now.m, d |-> now.d]

\* The occurrence date as the specification words it: the birthday's day and month in
\* the current year, in the next year when that date fell before today.
Occurrence(value) ==
    LET born == Strptime(value)[1]
        this == [y |-> Today.y, m |-> born.m, d |-> born.d]
    IN  IF Ordinal(this) >= Ordinal(Today) THEN this ELSE [this EXCEPT !.y = Today.y + 1]

OccurrenceExists(value) ==
    /\ Strptime(value) # << >>
    /\ IsDate(Today.y, Strptime(value)[1].m, Strptime(value)[1].d)
    /\ IsDate(Occurrence(value).y, Occurrence(value).m, Occurrence(value).d)

\* calendar days from today to the occurrence date
DaysAhead(value) == Ordinal(Occurrence(value)) - Ordinal(Today)

WindowDays(line) == IF Args(line) = << >> THEN DefaultDays ELSE IntOf(Args(line)[1])[1]

Listed(name, pairs) == \E k \in 1..Len(pairs) : pairs[k].name = name

\* C3: upcoming_birthdays(window_days) includes a contact with a birthday iff the number
\* of calendar days d from today to its occurrence date satisfies 0 <= d <= window_days,
\* at whatever time of day the query runs.
C3_IncludedIffWithinWindow ==
    [][(CmdBirthdays /\ pc' = "running") =>
        \A i \in 1..Len(data) :
            (data[i].birthday # << >> /\ OccurrenceExists(data[i].birthday[1])) =>
                (Listed(data[i].name.value, upcoming')
                    <=> DaysAhead(data[i].birthday[1]) \in 0..WindowDays(user_input'))]_vars

\* C4: the occurrence date is this year's date when that is today or later and next
\* year's only when it fell strictly before today; so a contact whose birthday is today
\* is listed with the occurrence date today, also with window_days = 0.
C4_OccurrenceTodayOrLater ==
    [][(CmdBirthdays /\ pc' = "running") =>
        \A i \in 1..Len(data) :
            (data[i].birthday # << >> /\ OccurrenceExists(data[i].birthday[1])) =>
                /\ \A k \in 1..Len(upcoming') :
                        upcoming'[k].name = data[i].name.value
                            => upcoming'[k].date = Occurrence(data[i].birthday[1])
                /\ DaysAhead(data[i].birthday[1]) = 0
                        => Listed(data[i].name.value, upcoming')]_vars

\* the argument counts of the commands
ArgCountOk(cmd, n) ==
    CASE cmd \in {"hello", "all"} -> n = 0
      [] cmd = "add" -> n >= 2
      [] cmd \in {"change", "add-birthday"} -> n = 2
      [] cmd \in {"phone", "show-birthday", "del"} -> n = 1
      [] cmd = "birthdays" -> n \in {0, 1}
      [] OTHER -> TRUE

Mismatched(line) == line # << >> /\ ~ArgCountOk(Command(line), Len(Args(line)))

\* a line that asks for something invalid: no words, a wrong number of arguments, a
\* malformed phone, a malformed or future birthday, a days argument that is no integer
ErrorLine(line) ==
    \/ line = << >>
    \/ Mismatched(line)
    \/ /\ line # << >> /\ ~Mismatched(line)
       /\ \/ Command(line) = "add" /\ \E i \in 2..Len(Args(line)) : ~TenDigits(Args(line)[i])
          \/ Command(line) = "change" /\ ~TenDigits(Args(line)[2])
          \/ Command(line) = "add-birthday"
                /\ ~(is_valid_format(Args(line)[2]) /\ is_valid_date(Args(line)[2], now))
          \/ Command(line) = "birthdays" /\ Args(line) # << >> /\ IntOf(Args(line)[1]) = << >>

\* C5: on every input line a validation or usage error aborts only that command: the
\* store is unchanged and the loop goes on; the loop ends only on close or exit.
C5_ErrorsAbortOnlyTheCommand ==
    [][\A line \in Lines : ReadsLine(line) =>
        /\ pc' # "running" => line \in CloseLines
        /\ ErrorLine(line) => data' = data /\ pc' = "running"]_vars

\* C6: creating a record with the empty name yields no Record, and none is in the store;
\* a non-empty name yields a Record with that name, no phones and no birthday.
C6_EmptyNameYieldsNoRecord ==
    /\ call = <<"Record", "">> => rec = << >>
    /\ \A name \in ApiNames \ {""} :
        call = <<"Record", name>>
            => rec = <<[name |-> Field(name), phones |-> << >>, birthday |-> << >>]>>
    /\ \A i \in 1..Len(data) : data[i].name.has /\ data[i].name.value # ""

\* C7: change(name, new_phone_text): a text that is no 10-digit string gives InvalidPhone
\* and an unchanged store; an absent name gives ContactNotFound and an unchanged store;
\* otherwise the contact's phones become the one entry new_phone_text, nothing else changes.
C7_ChangeReplacesAllPhones ==
    [][\A line \in ChangeLines : (ReadsLine(line) /\ Len(Args(line)) = 2) =>
        LET name == Args(line)[1]
            new_phone_text == Args(line)[2]
        IN  IF ~TenDigits(new_phone_text)
            THEN data' = data /\ printed' = <<"Phone number must be 10 digits.">>
            ELSE IF name \notin Keys(data)
            THEN data' = data /\ printed' = <<"Contact not found.">>
            ELSE data' = [data EXCEPT ![IndexOf(data, name)].phones = <<Field(new_phone_text)>>]]_vars

\* C8: add_birthday(name, text) changes the store only when text passes the format check,
\* then the range check, and name is a contact; then only that contact's birthday changes
\* and show_birthday(name) gives the same text back; otherwise nothing changes.
C8_SetBirthdayOnlyWhenValid ==
    [][\A line \in AddBirthdayLines : (ReadsLine(line) /\ Len(Args(line)) = 2) =>
        LET name == Args(line)[1]
            text == Args(line)[2]
        IN  IF ~is_valid_format(text)
            THEN data' = data /\ printed' = <<"Invalid date format. Use DD.MM.YYYY">>
            ELSE IF ~is_valid_date(text, now)
            THEN data' = data /\ printed' = <<"Invalid date. Please enter a valid date.">>
            ELSE IF name \notin Keys(data)
            THEN data' = data /\ printed' = <<"Contact not found.">>
            ELSE /\ data' = [data EXCEPT ![IndexOf(data, name)].birthday = <<text>>]
                 /\ show_birthday(data', name) = <<name \o "'s birthday is on " \o text>>]_vars

C8_BirthdaySet ==
    /\ user_input = <<"add-birthday", "Ann", "26.02.2000">>
    /\ printed = <<"Birthday added for contact 'Ann'.">>
    /\ "Ann" \in Keys(data)
    /\ find_record(data, "Ann")[1].birthday = <<"26.02.2000">>

\* C9: adding a contact under a name already present replaces the whole record: the store
\* holds one entry for the name, with the new phones and no birthday, and the entries
\* under other names are unchanged.
C9_AddOverwrites ==
    [][\A line \in AddLines :
        (/\ ReadsLine(line)
         /\ Len(Args(line)) >= 2
         /\ \A i \in 2..Len(Args(line)) : TenDigits(Args(line)[i])) =>
        LET name == Args(line)[1]
            phones == Tail(Args(line))
        IN  /\ Keys(data') = Keys(data) \cup {name}
            /\ Len(data') = Cardinality(Keys(data'))
            /\ find_record(data', name) =
                    <<[name |-> Field(name),
                       phones |-> [i \in 1..Len(phones) |-> Field(phones[i])],
                       birthday |-> << >>]>>
            /\ \A other \in Keys(data) \ {name} :
                    find_record(data', other) = find_record(data, other)]_vars

\* "add Ann" was the last command and Bob, added after Ann, still stands behind her: the
\* command replaced a record
C9_Overwritten ==
    /\ user_input = <<"add", "Ann", "2222222222">>
    /\ Len(data) = 2
    /\ data[1] = [name |-> Field("Ann"), phones |-> <<Field("2222222222")>>, birthday |-> << >>]
    /\ data[2].name.value = "Bob"

UsageOf(cmd) ==
    CASE cmd = "add" -> "Please provide both name and phone number."
      [] cmd = "change" -> "Please provide name and the new phone number."
      [] cmd = "add-birthday" -> "Please provide both name and birthday in the format DD.MM.YYYY."
      [] cmd \in {"phone", "show-birthday", "del"} -> "Please provide name."

Checked == {"add", "change", "phone", "add-birthday", "show-birthday", "del"}

\* C10 as stated: for every recognized command a line whose argument count does not match
\* yields a usage message instead of the normal action, and the store is unchanged.
C10_MismatchYieldsUsage ==
    [][\A line \in Lines : (ReadsLine(line) /\ Mismatched(line)) =>
        /\ \E cmd \in Checked : printed' = <<UsageOf(cmd)>>
        /\ data' = data]_vars

\* C10 as amended: add, change, phone, add-birthday, show-birthday and del answer a wrong
\* argument count with their usage message and leave the store unchanged; hello, all and
\* birthdays do not count their arguments: they run as usual (birthdays on its first
\* argument) and leave the store unchanged.
C10_CheckedCommandsYieldUsage ==
    [][\A line \in Lines : (ReadsLine(line) /\ Mismatched(line)) =>
        /\ data' = data
        /\ Command(line) \in Checked => printed' = <<UsageOf(Command(line))>> /\ pc' = "running"
        /\ Command(line) = "hello" => printed' = <<"How can I help you?">>
        /\ Command(line) = "all" => printed' = PrintAll(data).printed
        /\ (Command(line) = "birthdays" /\ IntOf(Args(line)[1]) # << >>) =>
                /\ upcoming' = birthdays(data, now, IntOf(Args(line)[1])[1]).upcoming
                /\ printed' = birthdays(data, now, IntOf(Args(line)[1])[1]).printed]_vars

C10_UsageShown ==
    /\ user_input = <<"change", "Ann", "3333333333", "1111111111">>
    /\ printed = <<"Please provide name and the new phone number.">>
    /\ data # << >>

====
